---------------------------- MODULE Spec2Model ----------------------------
(***************************************************************************)
(* A model of tavily_mcp_sse: the module-level start-up of server.py (port *)
(* parsing, credential check, tool registration, serving loop) and the     *)
(* four tool handlers search, extract, crawl and map, each one POST to the *)
(* Tavily endpoint followed by status handling and, for search, crawl and  *)
(* map, validation of the body against the schema of schemas.py.           *)
(*                                                                         *)
(* Two specifications are given.  Spec runs one invocation at a time over  *)
(* the full sets of requests and upstream responses.  ConcSpec interleaves *)
(* MaxInv invocations, suspended at their await, over reduced sets.        *)
(***************************************************************************)
EXTENDS Integers, Sequences, FiniteSets, TLC

VARIABLES
    env,             \* the process environment: TAVILY_MCP_PORT, TAVILY_API_KEY
    pc,              \* position of the start-up code of server.py
    tavily_port,     \* server.py: tavily_port
    base_urls,       \* server.py: base_urls
    TAVILY_API_KEY,  \* server.py: TAVILY_API_KEY
    headers,         \* server.py: headers
    tools,           \* names registered with mcp_server
    st,              \* per invocation: "idle", "awaiting" (at the await) or "done"
    call,            \* per invocation: the tool called and the arguments supplied
    sent,            \* per invocation: the HTTP requests issued so far
    response,        \* per invocation: the upstream response (the handler's local)
    outcome          \* per invocation: what the invocation ended with

vars == <<env, pc, tavily_port, base_urls, TAVILY_API_KEY, headers, tools,
          st, call, sent, response, outcome>>

\* The values start-up assigns once; read-only afterwards.
Config == <<tavily_port, base_urls, TAVILY_API_KEY, headers, tools>>

-----------------------------------------------------------------------------
(* Bounds of the model. *)

\* Invocations that may be in flight together (ConcSpec).
MaxInv == 2

\* Longest list of URLs given to extract.
MaxUrls == 3

Slots == 1..MaxInv

-----------------------------------------------------------------------------
(* Python and JSON values. *)

\* Python's None.
None == "<None>"

\* A module global before its assignment has run.
Undefined == "<undefined>"

Empty == [k \in {} |-> k]

\* A JSON value: its type and its content.  Numbers and strings both carry
\* their text, so that "1.5" the string and 1.5 the number are different values.
J(t, v) == [t |-> t, v |-> v]
JStr(s) == J("str", s)
JNum(s) == J("num", s)
JList(s) == J("list", s)
JDict(d) == J("dict", d)
JBool(b) == J("bool", b)
JNull == J("null", "null")

\* A body that is not JSON at all.
JText(s) == J("text", s)

\* A key a dict does not hold, and the result of a failed validation.
Missing == J("missing", "missing")
Invalid == J("invalid", "invalid")

Get(d, k) == IF k \in DOMAIN d THEN d[k] ELSE Missing

\* float(s) for the texts the model uses; a text outside the table is no number.
FloatOf == [s \in {"1.5", "0.9", "2"} |->
              CASE s = "1.5" -> "1.5" [] s = "0.9" -> "0.9" [] s = "2" -> "2.0"]

-----------------------------------------------------------------------------
(* schemas.py: pydantic validation (lax mode) of a parsed JSON value against   *)
(* a declared type.  Each operator gives the validated value, or Invalid.      *)

\* str: only a JSON string is accepted.
validate_str(j) == IF j.t = "str" THEN j ELSE Invalid

\* str | None = None
validate_opt_str(j) == IF j.t \in {"missing", "null"} THEN JNull ELSE validate_str(j)

\* float: a JSON number, a string that reads as a number, or a boolean (1.0
\* or 0.0) is accepted and becomes a float.
validate_float(j) ==
    IF j.t \in {"num", "str"} /\ j.v \in DOMAIN FloatOf
    THEN JNum(FloatOf[j.v])
    ELSE IF j.t = "bool"
         THEN JNum(IF j.v = "true" THEN "1.0" ELSE "0.0")
         ELSE Invalid

AllValid(s) == \A k \in 1..Len(s) : s[k] # Invalid

\* The items of a JSON list; none when the value is no list.
Items(j) == IF j.t = "list" THEN j.v ELSE <<>>

\* list[T]: j must be a list and every item, validated as T, valid.
validate_list(j, items) ==
    IF j.t # "list" THEN Invalid
    ELSE IF AllValid(items) THEN JList(items) ELSE Invalid

\* A model with the given validated fields: Invalid as soon as one field is.
validate_model(fields) ==
    IF \E k \in DOMAIN fields : fields[k] = Invalid THEN Invalid ELSE JDict(fields)

SearchImage(j) ==
    IF j.t # "dict" THEN Invalid
    ELSE validate_model([url         |-> validate_str(Get(j.v, "url")),
                         description |-> validate_opt_str(Get(j.v, "description"))])

SearchResult(j) ==
    IF j.t # "dict" THEN Invalid
    ELSE validate_model([title          |-> validate_str(Get(j.v, "title")),
                         url            |-> validate_str(Get(j.v, "url")),
                         content        |-> validate_str(Get(j.v, "content")),
                         score          |-> validate_float(Get(j.v, "score")),
                         published_date |-> validate_opt_str(Get(j.v, "published_date")),
                         raw_content    |-> validate_opt_str(Get(j.v, "raw_content"))])

\* str | SearchImage
validate_image(j) == IF j.t = "str" THEN j ELSE SearchImage(j)

\* list[str | SearchImage] | None = None
validate_images(j) ==
    IF j.t \in {"missing", "null"} THEN JNull
    ELSE validate_list(j, [k \in 1..Len(Items(j)) |-> validate_image(Items(j)[k])])

\* dict[str, Any] | None = None
validate_opt_dict(j) ==
    IF j.t \in {"missing", "null"} THEN JNull
    ELSE IF j.t = "dict" THEN j ELSE Invalid

TavilySearchResponse(j) ==
    IF j.t # "dict" THEN Invalid
    ELSE validate_model([query           |-> validate_str(Get(j.v, "query")),
                         answer          |-> validate_opt_str(Get(j.v, "answer")),
                         images          |-> validate_images(Get(j.v, "images")),
                         results         |-> LET r == Get(j.v, "results")
                                             IN  validate_list(r, [k \in 1..Len(Items(r)) |-> SearchResult(Items(r)[k])]),
                         response_time   |-> validate_float(Get(j.v, "response_time")),
                         auto_parameters |-> validate_opt_dict(Get(j.v, "auto_parameters"))])

CrawlResult(j) ==
    IF j.t # "dict" THEN Invalid
    ELSE validate_model([url         |-> validate_str(Get(j.v, "url")),
                         raw_content |-> validate_str(Get(j.v, "raw_content"))])

TavilyCrawlResponse(j) ==
    IF j.t # "dict" THEN Invalid
    ELSE validate_model([base_url      |-> validate_str(Get(j.v, "base_url")),
                         results       |-> LET r == Get(j.v, "results")
                                             IN  validate_list(r, [k \in 1..Len(Items(r)) |-> CrawlResult(Items(r)[k])]),
                         response_time |-> validate_float(Get(j.v, "response_time"))])

TavilyMapResponse(j) ==
    IF j.t # "dict" THEN Invalid
    ELSE validate_model([base_url      |-> validate_str(Get(j.v, "base_url")),
                         results       |-> LET r == Get(j.v, "results")
                                             IN  validate_list(r, [k \in 1..Len(Items(r)) |-> validate_str(Items(r)[k])]),
                         response_time |-> validate_float(Get(j.v, "response_time"))])

-----------------------------------------------------------------------------
(* server.py: the Literal types of the tool parameters. *)

SearchDepthLiteral == {"basic", "advanced"}
ExtractDepthLiteral == {"basic", "advanced"}
TopicLiteral == {"general", "news"}
TimeRangeLiteral == {"day", "week", "month", "year", "d", "w", "m", "y", None}
CountryLiteral == {
    "afghanistan", "albania", "algeria", "andorra", "angola", "argentina",
    "armenia", "australia", "austria", "azerbaijan", "bahamas", "bahrain",
    "bangladesh", "barbados", "belarus", "belgium", "belize", "benin",
    "bhutan", "bolivia", "bosnia and herzegovina", "botswana", "brazil",
    "brunei", "bulgaria", "burkina faso", "burundi", "cambodia", "cameroon",
    "canada", "cape verde", "central african republic", "chad", "chile",
    "china", "colombia", "comoros", "congo", "costa rica", "croatia",
    "cuba", "cyprus", "czech republic", "denmark", "djibouti",
    "dominican republic", "ecuador", "egypt", "el salvador",
    "equatorial guinea", "eritrea", "estonia", "ethiopia", "fiji",
    "finland", "france", "gabon", "gambia", "georgia", "germany", "ghana",
    "greece", "guatemala", "guinea", "haiti", "honduras", "hungary",
    "iceland", "india", "indonesia", "iran", "iraq", "ireland", "israel",
    "italy", "jamaica", "japan", "jordan", "kazakhstan", "kenya", "kuwait",
    "kyrgyzstan", "latvia", "lebanon", "lesotho", "liberia", "libya",
    "liechtenstein", "lithuania", "luxembourg", "madagascar", "malawi",
    "malaysia", "maldives", "mali", "malta", "mauritania", "mauritius",
    "mexico", "moldova", "monaco", "mongolia", "montenegro", "morocco",
    "mozambique", "myanmar", "namibia", "nepal", "netherlands",
    "new zealand", "nicaragua", "niger", "nigeria", "north korea",
    "north macedonia", "norway", "oman", "pakistan", "panama",
    "papua new guinea", "paraguay", "peru", "philippines", "poland",
    "portugal", "qatar", "romania", "russia", "rwanda", "saudi arabia",
    "senegal", "serbia", "singapore", "slovakia", "slovenia", "somalia",
    "south africa", "south korea", "south sudan", "spain", "sri lanka",
    "sudan", "sweden", "switzerland", "syria", "taiwan", "tajikistan",
    "tanzania", "thailand", "togo", "trinidad and tobago", "tunisia",
    "turkey", "turkmenistan", "uganda", "ukraine", "united arab emirates",
    "united kingdom", "united states", "uruguay", "uzbekistan", "venezuela",
    "vietnam", "yemen", "zambia", "zimbabwe",
    None}
FormatLiteral == {"markdown", "text"}
CrawlCategoriesLiteral == {"Careers", "Blog", "Documentation", "About", "Pricing",
                           "Community", "Developers", "Contact", "Media"}

\* Every item of the list s is in the set S.
ListOf(s, S) == \A k \in 1..Len(s) : s[k] \in S

-----------------------------------------------------------------------------
(* server.py: the declared parameters of the four tools.  A call supplies a    *)
(* function from some parameter names to values; <tool>_defaults holds the     *)
(* Field(default=...) of every optional parameter, <tool>_valid the declared   *)
(* constraints (Literal, ge, le) on the bound arguments, checked by the        *)
(* framework before the handler's body runs.                                   *)

\* The bound keyword arguments: what the call supplies, defaults for the rest.
Bind(args, defaults) == args @@ defaults

search_required == {"query"}

\* Defaults that differ from the declared ones in search_depth and max_results.
search_defaults_alt ==
    [auto_parameters            |-> FALSE,
     topic                      |-> "general",
     search_depth               |-> "advanced",
     max_results                |-> 5,
     time_range                 |-> None,
     days                       |-> 3,
     include_raw_content        |-> FALSE,
     include_answer             |-> FALSE,
     include_images             |-> FALSE,
     include_image_descriptions |-> FALSE,
     include_domains            |-> <<>>,
     exclude_domains            |-> <<>>,
     country                    |-> None]

search_defaults ==
    [auto_parameters            |-> FALSE,
     topic                      |-> "general",
     search_depth               |-> "basic",
     max_results                |-> 10,
     time_range                 |-> None,
     days                       |-> 3,
     include_raw_content        |-> FALSE,
     include_answer             |-> FALSE,
     include_images             |-> FALSE,
     include_image_descriptions |-> FALSE,
     include_domains            |-> <<>>,
     exclude_domains            |-> <<>>,
     country                    |-> None]

\* A validation without the bounds of max_results.
search_valid_unbounded(args) ==
    /\ search_required \subseteq DOMAIN args
    /\ DOMAIN args \subseteq search_required \cup DOMAIN search_defaults
    /\ LET kw == Bind(args, search_defaults)
       IN  /\ kw.topic \in TopicLiteral
           /\ kw.search_depth \in SearchDepthLiteral
           /\ kw.time_range \in TimeRangeLiteral
           /\ kw.country \in CountryLiteral

search_valid(args) ==
    /\ search_required \subseteq DOMAIN args
    /\ DOMAIN args \subseteq search_required \cup DOMAIN search_defaults
    /\ LET kw == Bind(args, search_defaults)
       IN  /\ kw.topic \in TopicLiteral
           /\ kw.search_depth \in SearchDepthLiteral
           /\ kw.max_results >= 5
           /\ kw.max_results <= 20
           /\ kw.time_range \in TimeRangeLiteral
           /\ kw.country \in CountryLiteral

extract_required == {"urls"}

extract_defaults ==
    [extract_depth  |-> "basic",
     include_images |-> FALSE,
     format         |-> "markdown"]

extract_valid(args) ==
    /\ extract_required \subseteq DOMAIN args
    /\ DOMAIN args \subseteq extract_required \cup DOMAIN extract_defaults
    /\ LET kw == Bind(args, extract_defaults)
       IN  /\ kw.extract_depth \in ExtractDepthLiteral
           /\ kw.format \in FormatLiteral

crawl_required == {"url", "instructions"}

crawl_defaults ==
    [max_depth      |-> 1,
     max_breadth    |-> 20,
     limit          |-> 50,
     select_paths   |-> <<>>,
     select_domains |-> <<>>,
     allow_external |-> FALSE,
     categories     |-> <<>>,
     extract_depth  |-> "basic",
     format         |-> "markdown"]

crawl_valid(args) ==
    /\ crawl_required \subseteq DOMAIN args
    /\ DOMAIN args \subseteq crawl_required \cup DOMAIN crawl_defaults
    /\ LET kw == Bind(args, crawl_defaults)
       IN  /\ kw.max_depth >= 1
           /\ kw.max_breadth >= 1
           /\ kw.limit >= 1
           /\ ListOf(kw.categories, CrawlCategoriesLiteral)
           /\ kw.extract_depth \in ExtractDepthLiteral
           /\ kw.format \in FormatLiteral

map_required == {"url", "instructions"}

map_defaults ==
    [max_depth      |-> 1,
     max_breadth    |-> 20,
     limit          |-> 50,
     select_paths   |-> <<>>,
     select_domains |-> <<>>,
     allow_external |-> FALSE,
     categories     |-> <<>>]

map_valid(args) ==
    /\ map_required \subseteq DOMAIN args
    /\ DOMAIN args \subseteq map_required \cup DOMAIN map_defaults
    /\ LET kw == Bind(args, map_defaults)
       IN  /\ kw.max_depth >= 1
           /\ kw.max_breadth >= 1
           /\ kw.limit >= 1
           /\ ListOf(kw.categories, CrawlCategoriesLiteral)

-----------------------------------------------------------------------------
(* server.py: start-up, the module-level code in the order it runs. *)

\* int(s) for the texts the model uses; any other text raises.
IntOf == [s \in {"9000"} |-> 9000]

Init ==
    /\ env \in [TAVILY_MCP_PORT : {None, "9000", "abc"},
                TAVILY_API_KEY  : {None, "tvly-key"}]
    /\ pc = "import"
    /\ tavily_port = Undefined
    /\ base_urls = Undefined
    /\ TAVILY_API_KEY = Undefined
    /\ headers = Undefined
    /\ tools = {}
    /\ st = [i \in Slots |-> "idle"]
    /\ call = [i \in Slots |-> [tool |-> "", args |-> Empty]]
    /\ sent = [i \in Slots |-> <<>>]
    /\ response = [i \in Slots |-> [kind |-> "none", status |-> 0, body |-> JNull]]
    /\ outcome = [i \in Slots |->
                    [kind |-> "none", error |-> "", msg |-> "", status |-> 0,
                     value |-> JNull]]

\* The port from the environment (8000 when absent or not a number), the
\* FastMCP server object and the endpoint map.
LoadPort ==
    /\ pc = "import"
    /\ tavily_port' = IF env.TAVILY_MCP_PORT = None THEN 8000
                      ELSE IF env.TAVILY_MCP_PORT \in DOMAIN IntOf
                           THEN IntOf[env.TAVILY_MCP_PORT]
                           ELSE 8000
    /\ base_urls' = [search  |-> "https://api.tavily.com/search",
                     extract |-> "https://api.tavily.com/extract",
                     crawl   |-> "https://api.tavily.com/crawl",
                     map     |-> "https://api.tavily.com/map"]
    /\ pc' = "keycheck"
    /\ UNCHANGED <<env, TAVILY_API_KEY, headers, tools, st, call, sent, response, outcome>>

\* A start-up that goes on without a credential.
CheckKeyNoExit ==
    /\ pc = "keycheck"
    /\ TAVILY_API_KEY' = env.TAVILY_API_KEY
    /\ headers' = [accept        |-> "application/json",
                   content_type  |-> "application/json",
                   Authorization |-> <<"Bearer", env.TAVILY_API_KEY>>,
                   user_agent    |-> "tavily-mcp"]
    /\ pc' = "decorate"
    /\ UNCHANGED <<env, tavily_port, base_urls, tools, st, call, sent, response, outcome>>

\* The credential from the environment: sys.exit(-1) when it is absent,
\* otherwise the request headers are built from it.
CheckKey ==
    /\ pc = "keycheck"
    /\ TAVILY_API_KEY' = env.TAVILY_API_KEY
    /\ IF env.TAVILY_API_KEY = None
       THEN /\ pc' = "exited"
            /\ UNCHANGED headers
       ELSE /\ headers' = [accept        |-> "application/json",
                           content_type  |-> "application/json",
                           Authorization |-> <<"Bearer", env.TAVILY_API_KEY>>,
                           user_agent    |-> "tavily-mcp"]
            /\ pc' = "decorate"
    /\ UNCHANGED <<env, tavily_port, base_urls, tools, st, call, sent, response, outcome>>

\* The four @mcp_server.tool decorators.
RegisterTools ==
    /\ pc = "decorate"
    /\ tools' = {"tavily-search", "tavily-extract", "tavily-crawl", "tavily-map"}
    /\ pc' = "loaded"
    /\ UNCHANGED <<env, tavily_port, base_urls, TAVILY_API_KEY, headers,
                   st, call, sent, response, outcome>>

\* The serving loop starts: from now on the host may invoke the tools.
run_server ==
    /\ pc = "loaded"
    /\ pc' = "serving"
    /\ UNCHANGED <<env, tavily_port, base_urls, TAVILY_API_KEY, headers, tools,
                   st, call, sent, response, outcome>>

-----------------------------------------------------------------------------
(* server.py: what the four handlers compute. *)

\* An HTTP request of client.post(endpoint, json=payload) on
\* httpx.AsyncClient(headers=headers).
Request(endpoint, payload) ==
    [method |-> "POST", url |-> endpoint, json |-> payload, headers |-> headers]

\* How an invocation ends: with a returned value or with a raised exception.
Result(v) == [kind |-> "result", error |-> "", msg |-> "", status |-> 0, value |-> v]
Raise(error, msg, status) ==
    [kind |-> "error", error |-> error, msg |-> msg, status |-> status, value |-> JNull]
Passed == [kind |-> "passed", error |-> "", msg |-> "", status |-> 0, value |-> JNull]

\* httpx: Response.is_success
is_success(status) == status >= 200 /\ status <= 299

\* A status check that lets every status but 401 and 429 through.
check_status_lenient(resp) ==
    IF resp.kind = "transport" THEN Raise("ConnectError", "", 0)
    ELSE IF resp.status = 401 THEN Raise("ValueError", "Invalid API Key", 401)
    ELSE IF resp.status = 429 THEN Raise("ValueError", "Usage limit exceeded", 429)
    ELSE Passed

\* A status check that tells 401 and 429 apart by the body.
check_status_by_body(resp) ==
    IF resp.kind = "transport" THEN Raise("ConnectError", "", 0)
    ELSE IF ~is_success(resp.status)
         THEN IF resp.status \in {401, 429} /\ resp.body.t = "text"
              THEN Raise("HTTPStatusError", "", resp.status)
              ELSE IF resp.status = 401 THEN Raise("ValueError", "Invalid API Key", 401)
              ELSE IF resp.status = 429
                   THEN Raise("ValueError", "Usage limit exceeded", 429)
                   ELSE Raise("HTTPStatusError", "", resp.status)
         ELSE Passed

\* The try block of each handler: client.post raises on a transport failure;
\* a response that is not a success raises ValueError for 401 and 429 and
\* httpx.HTTPStatusError (raise_for_status) for every other status.
check_status(resp) ==
    IF resp.kind = "transport" THEN Raise("ConnectError", "", 0)
    ELSE IF ~is_success(resp.status)
         THEN IF resp.status = 401 THEN Raise("ValueError", "Invalid API Key", 401)
              ELSE IF resp.status = 429
                   THEN Raise("ValueError", "Usage limit exceeded", 429)
                   ELSE Raise("HTTPStatusError", "", resp.status)
         ELSE Passed

\* An exception handler that posts the request again on 429 and 5xx.
except_retry(reqs, e) ==
    IF e.status = 429 \/ e.status >= 500 THEN Append(reqs, reqs[1]) ELSE reqs

\* except BaseException as e: raise e -- the requests issued stay as they are.
except_reraise(reqs, e) == reqs

\* A payload that keeps the caller's topic whatever the country.
search_params_keep_topic(kw) ==
    [query                      |-> kw.query,
     auto_parameters            |-> kw.auto_parameters,
     search_depth               |-> kw.search_depth,
     topic                      |-> kw.topic,
     days                       |-> kw.days,
     time_range                 |-> kw.time_range,
     max_results                |-> kw.max_results,
     include_answer             |-> kw.include_answer,
     include_images             |-> kw.include_images,
     include_image_descriptions |-> kw.include_image_descriptions,
     include_raw_content        |-> kw.include_raw_content,
     include_domains            |-> kw.include_domains,
     exclude_domains            |-> kw.exclude_domains,
     country                    |-> kw.country,
     api_key                    |-> TAVILY_API_KEY]

\* search: topic becomes "general" when a country is given; then the payload.
search_params(kw) ==
    [query                      |-> kw.query,
     auto_parameters            |-> kw.auto_parameters,
     search_depth               |-> kw.search_depth,
     topic                      |-> IF kw.country # None THEN "general" ELSE kw.topic,
     days                       |-> kw.days,
     time_range                 |-> kw.time_range,
     max_results                |-> kw.max_results,
     include_answer             |-> kw.include_answer,
     include_images             |-> kw.include_images,
     include_image_descriptions |-> kw.include_image_descriptions,
     include_raw_content        |-> kw.include_raw_content,
     include_domains            |-> kw.include_domains,
     exclude_domains            |-> kw.exclude_domains,
     country                    |-> kw.country,
     api_key                    |-> TAVILY_API_KEY]

extract_params(kw) ==
    [urls           |-> kw.urls,
     extract_depth  |-> kw.extract_depth,
     include_images |-> kw.include_images,
     format         |-> kw.format,
     api_key        |-> TAVILY_API_KEY]

crawl_params(kw) ==
    [url            |-> kw.url,
     instructions   |-> kw.instructions,
     max_depth      |-> kw.max_depth,
     max_breadth    |-> kw.max_breadth,
     limit          |-> kw.limit,
     select_paths   |-> kw.select_paths,
     select_domains |-> kw.select_domains,
     allow_external |-> kw.allow_external,
     categories     |-> kw.categories,
     extract_depth  |-> kw.extract_depth,
     format         |-> kw.format,
     api_key        |-> TAVILY_API_KEY]

map_params(kw) ==
    [url            |-> kw.url,
     instructions   |-> kw.instructions,
     max_depth      |-> kw.max_depth,
     max_breadth    |-> kw.max_breadth,
     limit          |-> kw.limit,
     select_paths   |-> kw.select_paths,
     select_domains |-> kw.select_domains,
     allow_external |-> kw.allow_external,
     categories     |-> kw.categories,
     api_key        |-> TAVILY_API_KEY]

\* response.json(): the parsed body, or Invalid when the body is no JSON.
json(resp) == IF resp.body.t = "text" THEN Invalid ELSE resp.body

\* A search that returns the parsed body as it came.
search_return_unvalidated(resp) ==
    LET e == check_status(resp)
    IN  IF e.kind = "error" THEN e
        ELSE IF json(resp) = Invalid THEN Raise("JSONDecodeError", "", 0)
        ELSE Result(json(resp))

\* search after the await: status check, response.json(), then
\* TavilySearchResponse.model_validate(...).model_dump().
search_return(resp) ==
    LET e == check_status(resp)
    IN  IF e.kind = "error" THEN e
        ELSE IF json(resp) = Invalid THEN Raise("JSONDecodeError", "", 0)
        ELSE LET v == TavilySearchResponse(json(resp))
             IN  IF v = Invalid
                 THEN Raise("ValidationError", "TavilySearchResponse", 0)
                 ELSE Result(v)

\* An extract that keeps only the successful results of the body.
extract_return_results_only(resp) ==
    LET e == check_status(resp)
    IN  IF e.kind = "error" THEN e
        ELSE IF json(resp) = Invalid THEN Raise("JSONDecodeError", "", 0)
        ELSE IF json(resp).t = "dict"
             THEN Result(JDict([results |-> Get(json(resp).v, "results")]))
             ELSE Result(json(resp))

\* extract after the await: status check, response.json(), and the parsed body
\* is returned as it is.
extract_return(resp) ==
    LET e == check_status(resp)
    IN  IF e.kind = "error" THEN e
        ELSE IF json(resp) = Invalid THEN Raise("JSONDecodeError", "", 0)
        ELSE Result(json(resp))

crawl_return(resp) ==
    LET e == check_status(resp)
    IN  IF e.kind = "error" THEN e
        ELSE IF json(resp) = Invalid THEN Raise("JSONDecodeError", "", 0)
        ELSE LET v == TavilyCrawlResponse(json(resp))
             IN  IF v = Invalid
                 THEN Raise("ValidationError", "TavilyCrawlResponse", 0)
                 ELSE Result(v)

map_return(resp) ==
    LET e == check_status(resp)
    IN  IF e.kind = "error" THEN e
        ELSE IF json(resp) = Invalid THEN Raise("JSONDecodeError", "", 0)
        ELSE LET v == TavilyMapResponse(json(resp))
             IN  IF v = Invalid
                 THEN Raise("ValidationError", "TavilyMapResponse", 0)
                 ELSE Result(v)

-----------------------------------------------------------------------------
(* The invocations.  The host calls a registered tool with arguments; the      *)
(* framework validates them against the declared parameters and, when they     *)
(* pass, runs the handler up to its await of client.post.  When the response   *)
(* (or a transport failure) arrives the handler runs to its end.               *)

\* A handler's local variable, assigned in the frame of invocation i.
AssignShared(f, i, v) == [j \in DOMAIN f |-> v]
AssignLocal(f, i, v) == [f EXCEPT ![i] = v]

\* Invocation i of tool name can start.
Callable(i, name) ==
    /\ pc = "serving"
    /\ name \in tools
    /\ st[i] = "idle"

\* The framework rejects the arguments: the handler's body never runs.
Reject(i, name, args) ==
    /\ call' = [call EXCEPT ![i] = [tool |-> name, args |-> args]]
    /\ st' = [st EXCEPT ![i] = "done"]
    /\ outcome' = [outcome EXCEPT ![i] = Raise("ValidationError", "arguments", 0)]
    /\ UNCHANGED <<sent, response>>

\* The handler builds its payload, issues the POST and suspends.
Post(i, name, args, endpoint, payload) ==
    /\ call' = [call EXCEPT ![i] = [tool |-> name, args |-> args]]
    /\ sent' = [sent EXCEPT ![i] = <<Request(endpoint, payload)>>]
    /\ st' = [st EXCEPT ![i] = "awaiting"]
    /\ UNCHANGED <<response, outcome>>

\* The handler resumes with resp and ends with result; an exception raised
\* inside the try block passes through the except clause.
Finish(i, resp, result) ==
    /\ response' = AssignLocal(response, i, resp)
    /\ outcome' = [outcome EXCEPT ![i] = result]
    /\ sent' = [sent EXCEPT ![i] =
                  IF check_status(resp).kind = "error"
                  THEN except_reraise(@, check_status(resp))
                  ELSE @]
    /\ st' = [st EXCEPT ![i] = "done"]
    /\ UNCHANGED call

search(i, args) ==
    /\ Callable(i, "tavily-search")
    /\ IF search_valid(args)
       THEN Post(i, "tavily-search", args, base_urls["search"],
                 search_params(Bind(args, search_defaults)))
       ELSE Reject(i, "tavily-search", args)
    /\ UNCHANGED <<env, pc, tavily_port, base_urls, TAVILY_API_KEY, headers, tools>>

search_resume(i, resp) ==
    /\ st[i] = "awaiting"
    /\ call[i].tool = "tavily-search"
    /\ Finish(i, resp, search_return(resp))
    /\ UNCHANGED <<env, pc, tavily_port, base_urls, TAVILY_API_KEY, headers, tools>>

extract(i, args) ==
    /\ Callable(i, "tavily-extract")
    /\ IF extract_valid(args)
       THEN Post(i, "tavily-extract", args, base_urls["extract"],
                 extract_params(Bind(args, extract_defaults)))
       ELSE Reject(i, "tavily-extract", args)
    /\ UNCHANGED <<env, pc, tavily_port, base_urls, TAVILY_API_KEY, headers, tools>>

extract_resume(i, resp) ==
    /\ st[i] = "awaiting"
    /\ call[i].tool = "tavily-extract"
    /\ Finish(i, resp, extract_return(resp))
    /\ UNCHANGED <<env, pc, tavily_port, base_urls, TAVILY_API_KEY, headers, tools>>

crawl(i, args) ==
    /\ Callable(i, "tavily-crawl")
    /\ IF crawl_valid(args)
       THEN Post(i, "tavily-crawl", args, base_urls["crawl"],
                 crawl_params(Bind(args, crawl_defaults)))
       ELSE Reject(i, "tavily-crawl", args)
    /\ UNCHANGED <<env, pc, tavily_port, base_urls, TAVILY_API_KEY, headers, tools>>

crawl_resume(i, resp) ==
    /\ st[i] = "awaiting"
    /\ call[i].tool = "tavily-crawl"
    /\ Finish(i, resp, crawl_return(resp))
    /\ UNCHANGED <<env, pc, tavily_port, base_urls, TAVILY_API_KEY, headers, tools>>

map(i, args) ==
    /\ Callable(i, "tavily-map")
    /\ IF map_valid(args)
       THEN Post(i, "tavily-map", args, base_urls["map"],
                 map_params(Bind(args, map_defaults)))
       ELSE Reject(i, "tavily-map", args)
    /\ UNCHANGED <<env, pc, tavily_port, base_urls, TAVILY_API_KEY, headers, tools>>

map_resume(i, resp) ==
    /\ st[i] = "awaiting"
    /\ call[i].tool = "tavily-map"
    /\ Finish(i, resp, map_return(resp))
    /\ UNCHANGED <<env, pc, tavily_port, base_urls, TAVILY_API_KEY, headers, tools>>

\* The host hands the outcome to the caller; the invocation is over.
Return(i) ==
    /\ st[i] = "done"
    /\ st' = [st EXCEPT ![i] = "idle"]
    /\ call' = [call EXCEPT ![i] = [tool |-> "", args |-> Empty]]
    /\ sent' = [sent EXCEPT ![i] = <<>>]
    /\ response' = [response EXCEPT ![i] = [kind |-> "none", status |-> 0, body |-> JNull]]
    /\ outcome' = [outcome EXCEPT ![i] =
                     [kind |-> "none", error |-> "", msg |-> "", status |-> 0,
                      value |-> JNull]]
    /\ UNCHANGED <<env, pc, tavily_port, base_urls, TAVILY_API_KEY, headers, tools>>

-----------------------------------------------------------------------------
(* The inputs: the calls the host makes and the responses the upstream gives.  *)

\* A parameter left out, or given one of vals.
Opt(k, vals) == {Empty} \cup {k :> v : v \in vals}

SearchRequests ==
    {[query |-> "q"] @@ a @@ b @@ c @@ d :
        a \in Opt("topic", {"general", "news", "sports"}),
        b \in Opt("country", {None, "france", "atlantis"}),
        c \in Opt("max_results", {4, 5, 20, 21}),
        d \in Opt("search_depth", {"deep"})}
    \cup {[topic |-> "news"]}

UrlNames == <<"https://a.example", "https://b.example", "https://c.example",
              "https://d.example", "https://e.example">>

ExtractRequests ==
    {[urls |-> SubSeq(UrlNames, 1, n)] @@ a @@ b :
        n \in 1..MaxUrls,
        a \in Opt("extract_depth", {"advanced", "deep"}),
        b \in Opt("format", {"text", "html"})}

CrawlRequests ==
    {[url |-> "https://a.example", instructions |-> "docs"] @@ a @@ b @@ c @@ d @@ e :
        a \in Opt("max_depth", {0, 2}),
        b \in Opt("max_breadth", {0}),
        c \in Opt("limit", {0, 5}),
        d \in Opt("categories", {<<"Blog">>, <<"Blog", "Shopping">>}),
        e \in Opt("format", {"pdf"})}

MapRequests ==
    {[url |-> "https://a.example", instructions |-> "docs"] @@ a @@ b @@ c @@ d :
        a \in Opt("max_depth", {0, 2}),
        b \in Opt("max_breadth", {0}),
        c \in Opt("limit", {0, 5}),
        d \in Opt("categories", {<<"Blog">>, <<"Blog", "Shopping">>})}

Statuses == {101, 200, 201, 302, 401, 404, 429, 500}

\* The upstream answers with any status and any of the bodies, or the
\* transport fails.
Responses(bodies) ==
    [kind : {"http"}, status : Statuses, body : bodies]
    \cup {[kind |-> "transport", status |-> 0, body |-> JNull]}

SearchItem ==
    [title |-> JStr("t"), url |-> JStr("https://a.example"),
     content |-> JStr("c"), score |-> JNum("0.9")]

SearchBodies ==
    {JDict(a @@ b @@ c) :
        a \in Opt("query", {JStr("q"), JNum("2")}),
        b \in Opt("results",
                  {JList(<<>>), JList(<<JDict(SearchItem)>>),
                   JList(<<JDict([SearchItem EXCEPT !.score = JStr("0.9")])>>),
                   JList(<<JDict(SearchItem),
                           JDict([SearchItem EXCEPT !.score = JStr("high")])>>),
                   JList(<<JDict([title |-> JStr("t"), score |-> JNum("0.9")])>>)}),
        c \in Opt("response_time", {JNum("2"), JStr("1.5"), JStr("fast")})}
    \cup {JText("<html>"), JList(<<>>),
          JDict([query |-> JStr("q"), results |-> JList(<<>>),
                 response_time |-> JNum("1.5"), answer |-> JStr("a"),
                 images |-> JList(<<JStr("https://a.example/i.png"),
                                    JDict([url |-> JStr("https://a.example/j.png")])>>),
                 auto_parameters |-> JDict([topic |-> JStr("news")]),
                 request_id |-> JStr("r")])}

CrawlItem == [url |-> JStr("https://a.example/docs"), raw_content |-> JStr("c")]

CrawlBodies ==
    {JDict(a @@ b @@ c) :
        a \in Opt("base_url", {JStr("https://a.example")}),
        b \in Opt("results",
                  {JList(<<>>), JList(<<JDict(CrawlItem)>>),
                   JList(<<JDict([url |-> JStr("https://a.example/docs")])>>),
                   JStr("none")}),
        c \in Opt("response_time",
                  {JNum("1.5"), JStr("1.5"), JStr("fast"), JBool("true")})}
    \cup {JText("<html>"), JList(<<>>)}

MapBodies ==
    {JDict(a @@ b @@ c) :
        a \in Opt("base_url", {JStr("https://a.example")}),
        b \in Opt("results",
                  {JList(<<>>), JList(<<JStr("https://a.example/docs")>>),
                   JList(<<JNum("2")>>), JStr("none")}),
        c \in Opt("response_time", {JNum("1.5"), JStr("1.5"), JStr("fast")})}
    \cup {JText("<html>"), JList(<<>>)}

\* What the upstream reports for one URL: extracted, failed, both or nothing.
Dispositions == {"ok", "failed", "both", "none"}

Pick(urls, d, wanted) == SelectSeq([k \in 1..Len(urls) |-> <<urls[k], d[k]>>],
                                   LAMBDA p : p[2] \in wanted)

\* The extract body in which URL k is reported as d[k] says.
ExtractBody(urls, d) ==
    LET ok     == Pick(urls, d, {"ok", "both"})
        failed == Pick(urls, d, {"failed", "both"})
    IN  JDict([results |->
                   JList([k \in 1..Len(ok) |->
                            JDict([url |-> JStr(ok[k][1]), raw_content |-> JStr("c"),
                                   images |-> JList(<<>>)])]),
               failed_results |->
                   JList([k \in 1..Len(failed) |->
                            JDict([url |-> JStr(failed[k][1]),
                                   error |-> JStr("timeout")])]),
               response_time |-> JNum("1.5")])

ExtractBodies(urls) ==
    {ExtractBody(urls, d) : d \in [1..Len(urls) -> Dispositions]}
    \cup {JText("<html>"), JDict([detail |-> JStr("partial")])}

\* The URLs invocation i asked extract for.
UrlsOf(i) == IF "urls" \in DOMAIN call[i].args THEN call[i].args.urls ELSE <<>>

-----------------------------------------------------------------------------
(* Spec: one invocation at a time, over all the requests and responses. *)

Search == \E args \in SearchRequests : search(1, args)
SearchResume == \E resp \in Responses(SearchBodies) : search_resume(1, resp)
Extract == \E args \in ExtractRequests : extract(1, args)
ExtractResume == \E resp \in Responses(ExtractBodies(UrlsOf(1))) : extract_resume(1, resp)
Crawl == \E args \in CrawlRequests : crawl(1, args)
CrawlResume == \E resp \in Responses(CrawlBodies) : crawl_resume(1, resp)
Map == \E args \in MapRequests : map(1, args)
MapResume == \E resp \in Responses(MapBodies) : map_resume(1, resp)
Returned == Return(1)

Next ==
    \/ LoadPort
    \/ CheckKey
    \/ RegisterTools
    \/ run_server
    \/ Search
    \/ SearchResume
    \/ Extract
    \/ ExtractResume
    \/ Crawl
    \/ CrawlResume
    \/ Map
    \/ MapResume
    \/ Returned

Spec == Init /\ [][Next]_vars

-----------------------------------------------------------------------------
(* ConcSpec: MaxInv invocations in flight together, each suspended at its own  *)
(* await, over a few requests and responses per tool.                          *)

ConcSearchRequests ==
    {[query |-> "q"],
     [query |-> "q", topic |-> "news", country |-> "france"],
     [query |-> "q", max_results |-> 21]}

ConcExtractRequests == {[urls |-> SubSeq(UrlNames, 1, 2)]}

ConcCrawlRequests == {[url |-> "https://a.example", instructions |-> "docs"]}

ConcMapRequests == {[url |-> "https://a.example", instructions |-> "docs",
                     max_depth |-> 2]}

ConcResponses(bodies) ==
    [kind : {"http"}, status : {200, 429}, body : bodies]
    \cup {[kind |-> "transport", status |-> 0, body |-> JNull]}

ConcSearchBodies ==
    {JDict([query |-> JStr("q"), results |-> JList(<<JDict(SearchItem)>>),
            response_time |-> JNum("2")]),
     JDict([query |-> JStr("q"), response_time |-> JNum("2")])}

ConcExtractBodies(urls) ==
    {ExtractBody(urls, [k \in 1..Len(urls) |-> "ok"]),
     ExtractBody(urls, [k \in 1..Len(urls) |-> "failed"])}

ConcCrawlBodies ==
    {JDict([base_url |-> JStr("https://a.example"),
            results |-> JList(<<JDict(CrawlItem)>>), response_time |-> JNum("1.5")]),
     JText("<html>")}

ConcMapBodies ==
    {JDict([base_url |-> JStr("https://a.example"),
            results |-> JList(<<JStr("https://a.example/docs")>>),
            response_time |-> JNum("1.5")]),
     JDict([base_url |-> JStr("https://a.example"), results |-> JStr("none"),
            response_time |-> JNum("1.5")])}

ConcSearch == \E i \in Slots : \E args \in ConcSearchRequests : search(i, args)
ConcSearchResume ==
    \E i \in Slots : \E resp \in ConcResponses(ConcSearchBodies) : search_resume(i, resp)
ConcExtract == \E i \in Slots : \E args \in ConcExtractRequests : extract(i, args)
ConcExtractResume ==
    \E i \in Slots : \E resp \in ConcResponses(ConcExtractBodies(UrlsOf(i))) :
        extract_resume(i, resp)
ConcCrawl == \E i \in Slots : \E args \in ConcCrawlRequests : crawl(i, args)
ConcCrawlResume ==
    \E i \in Slots : \E resp \in ConcResponses(ConcCrawlBodies) : crawl_resume(i, resp)
ConcMap == \E i \in Slots : \E args \in ConcMapRequests : map(i, args)
ConcMapResume ==
    \E i \in Slots : \E resp \in ConcResponses(ConcMapBodies) : map_resume(i, resp)
ConcReturned == \E i \in Slots : Return(i)

ConcNext ==
    \/ LoadPort
    \/ CheckKey
    \/ RegisterTools
    \/ run_server
    \/ ConcSearch
    \/ ConcSearchResume
    \/ ConcExtract
    \/ ConcExtractResume
    \/ ConcCrawl
    \/ ConcCrawlResume
    \/ ConcMap
    \/ ConcMapResume
    \/ ConcReturned

ConcSpec == Init /\ [][ConcNext]_vars

-----------------------------------------------------------------------------
(* The properties.  The helpers below restate what the claims say, apart from  *)
(* the definitions above that model the code.                                  *)

ToolNames == {"tavily-search", "tavily-extract", "tavily-crawl", "tavily-map"}

\* The endpoint each tool is bound to.
EndpointOf(name) ==
    CASE name = "tavily-search"  -> "https://api.tavily.com/search"
      [] name = "tavily-extract" -> "https://api.tavily.com/extract"
      [] name = "tavily-crawl"   -> "https://api.tavily.com/crawl"
      [] name = "tavily-map"     -> "https://api.tavily.com/map"

\* Parameter k was supplied and its value is not in S.
Outside(args, k, S) == k \in DOMAIN args /\ args[k] \notin S

\* Parameter k was supplied and is below lo.
Below(args, k, lo) == k \in DOMAIN args /\ args[k] < lo

\* The call breaks a declared constraint of its tool.
BreaksConstraint(c) ==
    CASE c.tool = "tavily-search" ->
            \/ "max_results" \in DOMAIN c.args
               /\ (c.args.max_results < 5 \/ c.args.max_results > 20)
            \/ Outside(c.args, "topic", {"general", "news"})
            \/ Outside(c.args, "search_depth", {"basic", "advanced"})
            \/ Outside(c.args, "country", CountryLiteral)
      [] c.tool = "tavily-extract" ->
            \/ Outside(c.args, "extract_depth", {"basic", "advanced"})
            \/ Outside(c.args, "format", {"markdown", "text"})
      [] c.tool = "tavily-crawl" ->
            \/ Below(c.args, "max_depth", 1)
            \/ Below(c.args, "max_breadth", 1)
            \/ Below(c.args, "limit", 1)
            \/ "categories" \in DOMAIN c.args
               /\ ~ListOf(c.args.categories, CrawlCategoriesLiteral)
            \/ Outside(c.args, "extract_depth", {"basic", "advanced"})
            \/ Outside(c.args, "format", {"markdown", "text"})
      [] c.tool = "tavily-map" ->
            \/ Below(c.args, "max_depth", 1)
            \/ Below(c.args, "max_breadth", 1)
            \/ Below(c.args, "limit", 1)
            \/ "categories" \in DOMAIN c.args
               /\ ~ListOf(c.args.categories, CrawlCategoriesLiteral)
      [] OTHER -> FALSE

\* The call's parameters pass validation: the required ones are there and no
\* constraint is broken.
PassesValidation(c) ==
    /\ c.tool \in ToolNames
    /\ ~BreaksConstraint(c)
    /\ CASE c.tool = "tavily-search"  -> {"query"} \subseteq DOMAIN c.args
         [] c.tool = "tavily-extract" -> {"urls"} \subseteq DOMAIN c.args
         [] OTHER                     -> {"url", "instructions"} \subseteq DOMAIN c.args

\* C1: every invocation whose parameters pass validation issues exactly one
\* HTTP POST, to the endpoint bound to its tool, whatever the outcome: while it
\* awaits the response and after it has ended there is that one request and no
\* second one.
C1_ExactlyOnePost ==
    \A i \in Slots :
        (st[i] # "idle" /\ PassesValidation(call[i])) =>
            /\ Len(sent[i]) = 1
            /\ sent[i][1].method = "POST"
            /\ sent[i][1].url = EndpointOf(call[i].tool)

\* An invocation that ended with an error on a 429 or a 500 has issued its
\* single request.
C1_Witness ==
    \E i \in Slots :
        /\ st[i] = "done"
        /\ PassesValidation(call[i])
        /\ response[i].kind = "http" /\ response[i].status \in {429, 500}
        /\ outcome[i].kind = "error"
        /\ Len(sent[i]) = 1

\* C2: a call with a constrained parameter that breaks its constraint is
\* rejected with a validation error and no HTTP request is issued for it.
C2_RejectedBeforeRequest ==
    \A i \in Slots :
        (st[i] # "idle" /\ BreaksConstraint(call[i])) =>
            /\ st[i] = "done"
            /\ outcome[i].kind = "error"
            /\ outcome[i].error = "ValidationError"
            /\ outcome[i].msg = "arguments"
            /\ sent[i] = <<>>
            /\ response[i].kind = "none"

\* A search with max_results = 21 was rejected and nothing was sent.
C2_Witness ==
    \E i \in Slots :
        /\ st[i] = "done"
        /\ call[i].tool = "tavily-search"
        /\ "max_results" \in DOMAIN call[i].args
        /\ call[i].args.max_results = 21
        /\ DOMAIN call[i].args = {"query", "max_results"}
        /\ outcome[i].error = "ValidationError"
        /\ sent[i] = <<>>

\* C3: for every tool and every body, a 401 ends the invocation with the
\* authentication error ("Invalid API Key") and a 429 with the rate-limit error
\* ("Usage limit exceeded"); no result is returned.
C3_AuthAndRateLimit ==
    \A i \in Slots :
        (st[i] = "done" /\ response[i].kind = "http") =>
            /\ response[i].status = 401 =>
                  /\ outcome[i].kind = "error"
                  /\ outcome[i].error = "ValueError"
                  /\ outcome[i].msg = "Invalid API Key"
            /\ response[i].status = 429 =>
                  /\ outcome[i].kind = "error"
                  /\ outcome[i].error = "ValueError"
                  /\ outcome[i].msg = "Usage limit exceeded"

\* A 401 that came with a body that is no JSON ended with the authentication
\* error.
C3_Witness ==
    \E i \in Slots :
        /\ st[i] = "done"
        /\ response[i].kind = "http" /\ response[i].status = 401
        /\ response[i].body.t = "text"
        /\ outcome[i].msg = "Invalid API Key"

\* C4: a response with a non-success status other than 401 and 429 (1xx and
\* 3xx as well as 4xx and 5xx) ends the invocation with the upstream error
\* carrying that status; and a result is returned only when the status was in
\* the success range.
C4_UpstreamError ==
    \A i \in Slots :
        st[i] = "done" =>
            /\ (/\ response[i].kind = "http"
                /\ response[i].status \notin 200..299
                /\ response[i].status \notin {401, 429}) =>
                  /\ outcome[i].kind = "error"
                  /\ outcome[i].error = "HTTPStatusError"
                  /\ outcome[i].status = response[i].status
            /\ outcome[i].kind = "result" =>
                  /\ response[i].kind = "http"
                  /\ response[i].status \in 200..299

\* An extract whose response was a 302 with a well-formed body ended with the
\* upstream error.
C4_Witness ==
    \E i \in Slots :
        /\ st[i] = "done"
        /\ call[i].tool = "tavily-extract"
        /\ response[i].kind = "http" /\ response[i].status = 302
        /\ response[i].body.t = "dict"
        /\ outcome[i].error = "HTTPStatusError" /\ outcome[i].status = 302

\* The declared shapes of the responses, as predicates on a parsed body.  With
\* lax a float field also takes a string that reads as a number or a boolean;
\* without, only a JSON number.
IsStr(j) == j.t = "str"
IsOptStr(j) == j.t \in {"missing", "null", "str"}
IsFloat(j, lax) ==
    \/ j.t = "num"
    \/ lax /\ j.t = "str" /\ j.v \in DOMAIN FloatOf
    \/ lax /\ j.t = "bool"
IsListWhere(j, good) == j.t = "list" /\ \A k \in 1..Len(good) : good[k]

SearchItemShape(j, lax) ==
    /\ j.t = "dict"
    /\ IsStr(Get(j.v, "title"))
    /\ IsStr(Get(j.v, "url"))
    /\ IsStr(Get(j.v, "content"))
    /\ IsFloat(Get(j.v, "score"), lax)
    /\ IsOptStr(Get(j.v, "published_date"))
    /\ IsOptStr(Get(j.v, "raw_content"))

ImageShape(j) ==
    \/ IsStr(j)
    \/ j.t = "dict" /\ IsStr(Get(j.v, "url")) /\ IsOptStr(Get(j.v, "description"))

SearchShape(b, lax) ==
    /\ b.t = "dict"
    /\ IsStr(Get(b.v, "query"))
    /\ IsOptStr(Get(b.v, "answer"))
    /\ LET im == Get(b.v, "images")
       IN  \/ im.t \in {"missing", "null"}
           \/ IsListWhere(im, [k \in 1..Len(Items(im)) |-> ImageShape(Items(im)[k])])
    /\ LET r == Get(b.v, "results")
       IN  IsListWhere(r, [k \in 1..Len(Items(r)) |-> SearchItemShape(Items(r)[k], lax)])
    /\ IsFloat(Get(b.v, "response_time"), lax)
    /\ Get(b.v, "auto_parameters").t \in {"missing", "null", "dict"}

CrawlShape(b, lax) ==
    /\ b.t = "dict"
    /\ IsStr(Get(b.v, "base_url"))
    /\ LET r == Get(b.v, "results")
       IN  IsListWhere(r, [k \in 1..Len(Items(r)) |->
                              /\ Items(r)[k].t = "dict"
                              /\ IsStr(Get(Items(r)[k].v, "url"))
                              /\ IsStr(Get(Items(r)[k].v, "raw_content"))])
    /\ IsFloat(Get(b.v, "response_time"), lax)

MapShape(b, lax) ==
    /\ b.t = "dict"
    /\ IsStr(Get(b.v, "base_url"))
    /\ LET r == Get(b.v, "results")
       IN  IsListWhere(r, [k \in 1..Len(Items(r)) |-> IsStr(Items(r)[k])])
    /\ IsFloat(Get(b.v, "response_time"), lax)

ShapeOf(name, b, lax) ==
    CASE name = "tavily-search" -> SearchShape(b, lax)
      [] name = "tavily-crawl"  -> CrawlShape(b, lax)
      [] name = "tavily-map"    -> MapShape(b, lax)

\* Invocation i of search, crawl or map ended on a success status with a body
\* that is JSON.
EndedOnJsonSuccess(i) ==
    /\ st[i] = "done"
    /\ call[i].tool \in {"tavily-search", "tavily-crawl", "tavily-map"}
    /\ response[i].kind = "http"
    /\ response[i].status \in 200..299
    /\ response[i].body.t # "text"

\* C5 as claimed: a success body in which a required field is missing or a
\* field has another primitive type than declared ends with the
\* schema-violation error.
C5_AsClaimed ==
    \A i \in Slots :
        (EndedOnJsonSuccess(i) /\ ~ShapeOf(call[i].tool, response[i].body, FALSE)) =>
            /\ outcome[i].kind = "error"
            /\ outcome[i].error = "ValidationError"

\* C5, amended: a success body in JSON in which a required field is missing or
\* a field holds a value that cannot be converted to the declared type ends with
\* the schema-violation error and nothing of the body is returned; a string that
\* reads as a number, or a boolean, in a float field is converted, and what is
\* returned then has exactly the declared types.
C5_SchemaViolation ==
    \A i \in Slots :
        EndedOnJsonSuccess(i) =>
            /\ ~ShapeOf(call[i].tool, response[i].body, TRUE) =>
                  /\ outcome[i].kind = "error"
                  /\ outcome[i].error = "ValidationError"
                  /\ outcome[i].value = JNull
            /\ outcome[i].kind = "result" =>
                  /\ ShapeOf(call[i].tool, response[i].body, TRUE)
                  /\ ShapeOf(call[i].tool, outcome[i].value, FALSE)

\* A search whose 200 body lacks the results field ended with the
\* schema-violation error.
C5_Witness ==
    \E i \in Slots :
        /\ EndedOnJsonSuccess(i)
        /\ call[i].tool = "tavily-search"
        /\ response[i].body.t = "dict"
        /\ DOMAIN response[i].body.v = {"query", "response_time"}
        /\ IsStr(response[i].body.v.query)
        /\ outcome[i].error = "ValidationError"

\* The URLs of the entries of the list under key in v.
UrlsIn(v, key) ==
    IF v.t = "dict"
    THEN LET l == Items(Get(v.v, key))
         IN  [k \in 1..Len(l) |-> IF l[k].t = "dict" THEN Get(l[k].v, "url") ELSE Missing]
    ELSE <<>>

Count(s, x) == Cardinality({k \in 1..Len(s) : s[k] = x})

\* Every one of urls is in exactly one of the two lists of v.
Partitioned(urls, v) ==
    \A k \in 1..Len(urls) :
        Count(UrlsIn(v, "results"), JStr(urls[k]))
          + Count(UrlsIn(v, "failed_results"), JStr(urls[k])) = 1

ExtractReturned(i) ==
    /\ st[i] = "done"
    /\ call[i].tool = "tavily-extract"
    /\ outcome[i].kind = "result"

\* C6 as claimed: in the result of every successful extract, every input URL
\* is in exactly one of the two lists.
C6_AsClaimed ==
    \A i \in Slots : ExtractReturned(i) => Partitioned(UrlsOf(i), outcome[i].value)

\* C6, amended: the result of every successful extract is the upstream's parsed
\* body, unchanged, so its two lists are the ones the upstream reported and the
\* input URLs are split over them exactly when the upstream split them.
C6_PassThrough ==
    \A i \in Slots :
        ExtractReturned(i) =>
            /\ outcome[i].value = response[i].body
            /\ Partitioned(UrlsOf(i), outcome[i].value)
                 <=> Partitioned(UrlsOf(i), response[i].body)

\* Three URLs, the upstream reported two successes and one failure: the result
\* has two success entries and one failure entry and covers every URL once.
C6_Witness ==
    \E i \in Slots :
        /\ ExtractReturned(i)
        /\ Len(UrlsOf(i)) = 3
        /\ Len(UrlsIn(response[i].body, "results")) = 2
        /\ Len(UrlsIn(response[i].body, "failed_results")) = 1
        /\ Len(UrlsIn(outcome[i].value, "results")) = 2
        /\ Len(UrlsIn(outcome[i].value, "failed_results")) = 1
        /\ Partitioned(UrlsOf(i), outcome[i].value)

\* Invocation i has sent its request.
HasSent(i, name) == st[i] # "idle" /\ call[i].tool = name /\ Len(sent[i]) >= 1

\* C7: a search with a country that is not null sends topic = "general"
\* whatever topic the caller gave; a search with no country, or a null one, sends
\* the caller's topic unchanged.
C7_CountryForcesGeneral ==
    \A i \in Slots :
        HasSent(i, "tavily-search") =>
            LET a == call[i].args
                p == sent[i][1].json
            IN  IF "country" \in DOMAIN a /\ a.country # None
                THEN p.topic = "general" /\ p.country = a.country
                ELSE /\ "topic" \in DOMAIN a => p.topic = a.topic
                     /\ p.country = None

\* A search for news with a country was sent with topic "general".
C7_Witness ==
    /\ \E i \in Slots :
          /\ HasSent(i, "tavily-search")
          /\ "topic" \in DOMAIN call[i].args /\ call[i].args.topic = "news"
          /\ "country" \in DOMAIN call[i].args /\ call[i].args.country = "france"
          /\ sent[i][1].json.topic = "general"

\* The payload the documented defaults give for a call with only the required
\* parameters, the credential apart.
DocumentedPayload(c) ==
    CASE c.tool = "tavily-search" ->
            [query |-> c.args.query, auto_parameters |-> FALSE,
             search_depth |-> "basic", topic |-> "general", days |-> 3,
             time_range |-> None, max_results |-> 10, include_answer |-> FALSE,
             include_images |-> FALSE, include_image_descriptions |-> FALSE,
             include_raw_content |-> FALSE, include_domains |-> <<>>,
             exclude_domains |-> <<>>, country |-> None]
      [] c.tool = "tavily-extract" ->
            [urls |-> c.args.urls, extract_depth |-> "basic",
             include_images |-> FALSE, format |-> "markdown"]
      [] c.tool = "tavily-crawl" ->
            [url |-> c.args.url, instructions |-> c.args.instructions,
             max_depth |-> 1, max_breadth |-> 20, limit |-> 50,
             select_paths |-> <<>>, select_domains |-> <<>>,
             allow_external |-> FALSE, categories |-> <<>>,
             extract_depth |-> "basic", format |-> "markdown"]
      [] c.tool = "tavily-map" ->
            [url |-> c.args.url, instructions |-> c.args.instructions,
             max_depth |-> 1, max_breadth |-> 20, limit |-> 50,
             select_paths |-> <<>>, select_domains |-> <<>>,
             allow_external |-> FALSE, categories |-> <<>>]

RequiredOf(name) ==
    CASE name = "tavily-search"  -> {"query"}
      [] name = "tavily-extract" -> {"urls"}
      [] OTHER                   -> {"url", "instructions"}

\* C8: a call that supplies only the required parameters sends a payload that
\* holds every declared parameter of its tool, each omitted one with its
\* documented default, plus the credential field.
C8_DefaultPayload ==
    \A i \in Slots :
        (/\ st[i] # "idle"
         /\ call[i].tool \in ToolNames
         /\ DOMAIN call[i].args = RequiredOf(call[i].tool)) =>
            /\ Len(sent[i]) = 1
            /\ sent[i][1].json =
                 DocumentedPayload(call[i]) @@ [api_key |-> env.TAVILY_API_KEY]

\* A search called with its query alone went out with max_results 10 and
\* search_depth "basic".
C8_Witness ==
    \E i \in Slots :
        /\ HasSent(i, "tavily-search")
        /\ DOMAIN call[i].args = {"query"}
        /\ sent[i][1].json.max_results = 10
        /\ sent[i][1].json.search_depth = "basic"
        /\ sent[i][1].json.api_key = "tvly-key"

\* C9: when the process starts with no credential it ends before a tool is
\* registered and before the serving loop starts: no tool is ever invoked and no
\* request ever sent with the credential absent.
C9_NoKeyNoTools ==
    env.TAVILY_API_KEY = None =>
        /\ pc \in {"import", "keycheck", "exited"}
        /\ tools = {}
        /\ \A i \in Slots : st[i] = "idle" /\ sent[i] = <<>>

\* The process has exited for want of a credential.
C9_Witness ==
    /\ env.TAVILY_API_KEY = None
    /\ pc = "exited"
    /\ tools = {}

\* What the handler of the tool of call c sends, and what it ends with on resp.
PayloadFor(c) ==
    CASE c.tool = "tavily-search"  -> search_params(Bind(c.args, search_defaults))
      [] c.tool = "tavily-extract" -> extract_params(Bind(c.args, extract_defaults))
      [] c.tool = "tavily-crawl"   -> crawl_params(Bind(c.args, crawl_defaults))
      [] c.tool = "tavily-map"     -> map_params(Bind(c.args, map_defaults))

ReturnFor(c, resp) ==
    CASE c.tool = "tavily-search"  -> search_return(resp)
      [] c.tool = "tavily-extract" -> extract_return(resp)
      [] c.tool = "tavily-crawl"   -> crawl_return(resp)
      [] c.tool = "tavily-map"     -> map_return(resp)

\* Each invocation's request and outcome are functions of its own arguments
\* and its own response.
OwnInputsOnly ==
    \A i \in Slots :
        /\ (st[i] # "idle" /\ Len(sent[i]) >= 1) =>
              sent[i] = <<Request(EndpointOf(call[i].tool), PayloadFor(call[i]))>>
        /\ (st[i] = "done" /\ response[i].kind # "none") =>
              outcome[i] = ReturnFor(call[i], response[i])

\* A step leaves alone every invocation that does not take it.
OthersUntouched ==
    \A j \in Slots :
        (st[j] # "idle" /\ st'[j] = st[j]) =>
            /\ call'[j] = call[j]
            /\ sent'[j] = sent[j]
            /\ response'[j] = response[j]
            /\ outcome'[j] = outcome[j]

\* C10: concurrent invocations do not interfere: once the server is serving the
\* configuration (credential, endpoints, headers, port, registered tools) never
\* changes, a step of one invocation changes nothing of another, and each
\* invocation's payload and outcome depend only on its own arguments and its own
\* response.
C10_NoInterference ==
    /\ []OwnInputsOnly
    /\ [][OthersUntouched]_vars
    /\ [][pc = "serving" => (Config' = Config /\ pc' = pc)]_vars

\* Two invocations with different arguments are in flight together, one ended
\* on a failure and the other still awaiting its response.
C10_Witness ==
    \E i, j \in Slots :
        /\ i # j
        /\ st[i] = "awaiting" /\ st[j] = "done"
        /\ call[i].tool = "tavily-search" /\ call[j].tool = "tavily-search"
        /\ call[i].args # call[j].args
        /\ response[j].kind = "http" /\ response[j].status = 429
        /\ outcome[j].kind = "error"

=============================================================================
